---- MODULE Spec2Model ----
(***************************************************************************)
(* MCP-Mem0 server with per-user memory isolation (src/main.py).           *)
(*                                                                         *)
(* Strings are TLA+ strings.  An optional string (Python `str | None`) is  *)
(* a sequence of at most one string: None is << >>, the string s is <<s>>. *)
(***************************************************************************)
EXTENDS Naturals, Sequences, FiniteSets, TLC

\* ------------------------------------------------------------------ bounds

\* Requests that may be in flight at the same time.
NumRequests == 2
\* Longest string drawn for a header, an explicit parameter or a context
\* value in SpecResolve and SpecHeaders.
MaxLen == 2
\* Records the storage holds at most in the concurrent specification.
MaxStore == 1
\* Longest storage content drawn as a start state of SpecTools.
MaxResults == 2

\* ------------------------------------------------------- program constants

\* save_memory: text[:100] and len(text) > 100.
PreviewLen == 100
\* search_memories: limit: int = 3.
DefaultLimit == 3

\* --------------------------------------------------------------- strings

None == << >>
Some(s) == << s >>

\* The characters str.strip() removes (the ones the alphabets below use).
Whitespace == {" ", "\t"}
\* The characters identifiers are drawn from.
Alphabet == {"a", "b", " "}

RECURSIVE StringsOver(_, _)
StringsOver(A, n) ==
    IF n = 0 THEN {""}
    ELSE LET shorter == StringsOver(A, n - 1)
         IN shorter \cup {s \o c : s \in {t \in shorter : Len(t) = n - 1}, c \in A}

Strings == StringsOver(Alphabet, MaxLen)
OptStrings == {None} \cup {Some(s) : s \in Strings}

RECURSIVE lstrip(_)
lstrip(s) ==
    IF Len(s) > 0 /\ Head(s) \in Whitespace THEN lstrip(Tail(s)) ELSE s

RECURSIVE rstrip(_)
rstrip(s) ==
    IF Len(s) > 0 /\ SubSeq(s, Len(s), Len(s)) \in Whitespace
    THEN rstrip(SubSeq(s, 1, Len(s) - 1))
    ELSE s

\* str.strip()
strip(s) == rstrip(lstrip(s))

\* Python truth of a `str | None` value: None and "" are false.
truthy(o) == o # None /\ o[1] # ""

\* ------------------------------------------------------ identity resolution

\* The condition `x and x.strip()`.
nonblank(o) == truthy(o) /\ strip(o[1]) # ""

_resolve_user_id_header_first(user_id, ctx_user, default) ==
    IF nonblank(ctx_user) THEN strip(ctx_user[1])
    ELSE IF nonblank(user_id) THEN strip(user_id[1])
    ELSE default

\* _resolve_user_id(user_id), with current_user_id.get() and DEFAULT_USER_ID
\* passed in.
_resolve_user_id(user_id, ctx_user, default) ==
    IF nonblank(user_id) THEN strip(user_id[1])
    ELSE IF nonblank(ctx_user) THEN strip(ctx_user[1])
    ELSE default

\* ------------------------------------------------------- header extraction

\* Python's `a or b`.
py_or(a, b) == IF truthy(a) THEN a ELSE b

\* A request's headers: each of the three is None (absent) or a string.
HeaderNames == {"x-user-id", "x-user-email", "x-librechat-user-id"}
NoHeaders == [h \in HeaderNames |-> None]

\* The expression of dispatch: headers.get(..) or headers.get(..) or ..
header_user_id(headers) ==
    py_or(headers["x-user-id"],
          py_or(headers["x-user-email"], headers["x-librechat-user-id"]))

\* --------------------------------------------------- the request context

\* current_user_id is a contextvars.ContextVar with default None: every
\* request is handled in a task of its own, which runs in its own copy of
\* the context, so the variable holds one value per request, c[r].

\* The context a new request's task starts in: nothing in the server's base
\* context ever sets the variable.
ctx_new(c, r) == [c EXCEPT ![r] = None]

\* One slot for the whole process.
ctx_set_shared(c, r, v) == [q \in DOMAIN c |-> Some(v)]

\* current_user_id.set(v) while handling request r.
ctx_set(c, r, v) == [c EXCEPT ![r] = Some(v)]

\* current_user_id.get() while handling request r.
ctx_get(c, r) == c[r]

\* ------------------------------------------------- the storage capability

\* The Mem0 client, by its contract: records are kept per user_id scope, in
\* the order they were added.  A store is a sequence of
\* [user_id |-> scope, memory |-> text].
scope_of(store, uid) == SelectSeq(store, LAMBDA rec : rec.user_id = uid)

texts_of(records) == [i \in 1..Len(records) |-> records[i].memory]

first_n(seq, n) == IF Len(seq) <= n THEN seq ELSE SubSeq(seq, 1, n)

\* The shapes a Mem0 response comes in: {"results": [{"memory": m}, ..]},
\* an already flat list [m, ..], and a results wrapper whose entries have no
\* "memory" key.
Shapes == {"dict", "list", "nokey"}

response(shape, records) ==
    CASE shape = "dict" ->
           [type |-> "dict",
            results |-> [i \in 1..Len(records) |-> [memory |-> records[i].memory]]]
      [] shape = "nokey" ->
           [type |-> "dict",
            results |-> [i \in 1..Len(records) |-> [text |-> records[i].memory]]]
      [] OTHER -> [type |-> "list", items |-> texts_of(records)]

\* mem0_client.get_all(user_id=uid)
mem0_get_all(mem, uid) == response(mem.shape, scope_of(mem.store, uid))

\* mem0_client.search(query, user_id=uid, limit=limit): the relevance order
\* is the storage's own; here it is the order of the store.
mem0_search(mem, query, uid, limit) ==
    response(mem.shape, first_n(scope_of(mem.store, uid), limit))

\* What the calls of one tool invocation do to the store: a call that raised
\* did nothing.
RECURSIVE apply_calls(_, _)
apply_calls(store, calls) ==
    IF calls = << >> THEN store
    ELSE LET c == Head(calls)
             next == IF ~c.ok THEN store
                     ELSE IF c.op = "add"
                          THEN Append(store, [user_id |-> c.user_id, memory |-> c.arg])
                     ELSE IF c.op = "delete_all"
                          THEN SelectSeq(store, LAMBDA rec : rec.user_id # c.user_id)
                     ELSE store
         IN apply_calls(next, Tail(calls))

\* ------------------------------------------------------------------- JSON

json_escape_char(c) ==
    CASE c = "\"" -> "\\\""
      [] c = "\\" -> "\\\\"
      [] c = "\n" -> "\\n"
      [] c = "\t" -> "\\t"
      [] OTHER -> c

RECURSIVE json_escape(_)
json_escape(s) ==
    IF s = "" THEN "" ELSE json_escape_char(Head(s)) \o json_escape(Tail(s))

RECURSIVE json_items(_)
json_items(list) ==
    IF Len(list) = 1 THEN "  \"" \o json_escape(list[1]) \o "\""
    ELSE "  \"" \o json_escape(list[1]) \o "\",\n" \o json_items(Tail(list))

\* json.dumps(list, indent=2) of a list of strings.
json_dumps(list) ==
    IF list = << >> THEN "[]" ELSE "[\n" \o json_items(list) \o "\n]"

\* ------------------------------------------------------------- the tools

\* What a tool invocation ends with: a returned string, or an exception that
\* leaves the tool.
Return(v) == [kind |-> "return", value |-> v]
Raise(e) == [kind |-> "raise", value |-> e]

\* The storage double of one invocation: the store it answers from, whether
\* its call raises (None, or the exception's message) and the shape of its
\* responses.
Mem(store, fail, shape) == [store |-> store, fail |-> fail, shape |-> shape]

\* One call of a storage method, as a test double records it.
Call(op, uid, arg, mem) ==
    [op |-> op, user_id |-> uid, arg |-> arg, ok |-> mem.fail = None]

except_propagate(prefix, e) == Raise(e)

\* except Exception as e: return f"{prefix}{str(e)}"
except_Exception(prefix, e) == Return(prefix \o e)

\* The list comprehension [memory["memory"] for memory in memories["results"]]
\* and the else branch; a missing "memory" key is a KeyError.
has_memory_keys(memories) ==
    memories.type = "dict" =>
        \A i \in 1..Len(memories.results) : "memory" \in DOMAIN memories.results[i]

flatten_reversed(memories) ==
    IF memories.type = "dict"
    THEN [i \in 1..Len(memories.results) |->
             memories.results[Len(memories.results) + 1 - i].memory]
    ELSE memories.items

flatten(memories) ==
    IF memories.type = "dict"
    THEN [i \in 1..Len(memories.results) |-> memories.results[i].memory]
    ELSE memories.items

\* The body both get_all_memories and search_memories run on the response.
flattened_json(prefix, memories) ==
    IF has_memory_keys(memories)
    THEN Return(json_dumps(flatten(memories)))
    ELSE except_Exception(prefix, "'memory'")

save_memory_default_scope(text, user_id, ctx_user, default, mem) ==
    LET preview == IF Len(text) > PreviewLen
                   THEN SubSeq(text, 1, PreviewLen) \o "..." ELSE text
    IN [calls |-> << Call("add", default, text, mem) >>,
        out |-> IF mem.fail # None
                THEN except_Exception("Error saving memory: ", mem.fail[1])
                ELSE Return("Successfully saved memory for user '" \o default
                            \o "': " \o preview)]

save_memory(text, user_id, ctx_user, default, mem) ==
    LET resolved_uid == _resolve_user_id(Some(user_id), ctx_user, default)
        preview == IF Len(text) > PreviewLen
                   THEN SubSeq(text, 1, PreviewLen) \o "..." ELSE text
    IN [calls |-> << Call("add", resolved_uid, text, mem) >>,
        out |-> IF mem.fail # None
                THEN except_Exception("Error saving memory: ", mem.fail[1])
                ELSE Return("Successfully saved memory for user '" \o resolved_uid
                            \o "': " \o preview)]

get_all_memories(user_id, ctx_user, default, mem) ==
    LET resolved_uid == _resolve_user_id(Some(user_id), ctx_user, default)
    IN [calls |-> << Call("get_all", resolved_uid, "", mem) >>,
        out |-> IF mem.fail # None
                THEN except_Exception("Error retrieving memories: ", mem.fail[1])
                ELSE flattened_json("Error retrieving memories: ",
                                    mem0_get_all(mem, resolved_uid))]

search_memories(query, limit, user_id, ctx_user, default, mem) ==
    LET resolved_uid == _resolve_user_id(Some(user_id), ctx_user, default)
    IN [calls |-> << Call("search", resolved_uid, query, mem) >>,
        out |-> IF mem.fail # None
                THEN except_Exception("Error searching memories: ", mem.fail[1])
                ELSE flattened_json("Error searching memories: ",
                                    mem0_search(mem, query, resolved_uid, limit))]

delete_all_memories_unguarded(confirm, user_id, ctx_user, default, mem) ==
    LET resolved_uid == _resolve_user_id(Some(user_id), ctx_user, default)
    IN [calls |-> << Call("delete_all", resolved_uid, "", mem) >>,
        out |-> IF mem.fail # None
                THEN except_Exception("Error deleting memories: ", mem.fail[1])
                ELSE Return("Successfully deleted all memories for user '"
                            \o resolved_uid \o "'.")]

delete_all_memories(confirm, user_id, ctx_user, default, mem) ==
    IF ~confirm
    THEN [calls |-> << >>,
          out |-> Return("Deletion not confirmed. Set confirm=true to delete all memories. This action cannot be undone.")]
    ELSE LET resolved_uid == _resolve_user_id(Some(user_id), ctx_user, default)
         IN [calls |-> << Call("delete_all", resolved_uid, "", mem) >>,
             out |-> IF mem.fail # None
                     THEN except_Exception("Error deleting memories: ", mem.fail[1])
                     ELSE Return("Successfully deleted all memories for user '"
                                 \o resolved_uid \o "'.")]

\* ------------------------------------------------------------ middleware

dispatch_set_after_next(c, r, user_id) == c

\* UserIDMiddleware.dispatch: `if user_id: current_user_id.set(user_id)`.
dispatch_set(c, r, user_id) ==
    IF truthy(user_id) THEN ctx_set(c, r, user_id[1]) ELSE c

\* ------------------------------------------------------------------ state

VARIABLES
    DEFAULT_USER_ID,  \* os.getenv("DEFAULT_USER_ID", "default"), read once
    pc,               \* per request: "idle", or "next" once dispatch awaits call_next
    found,            \* per request: dispatch's local user_id
    ctx,              \* per request: current_user_id in the request's context
    store,            \* what the Mem0 client holds
    last,             \* the latest tool invocation: arguments, storage calls, outcome
    input             \* the inputs a sequential specification draws at the start

vars == << DEFAULT_USER_ID, pc, found, ctx, store, last, input >>

Requests == 1..NumRequests

\* Values the concurrent specification sends as headers and as user_id.
WireIds == {"", "a", "b"}
\* A request of the concurrent specification carries at most one of the
\* recognised headers.
WireHeaders ==
    {NoHeaders} \cup
    {[NoHeaders EXCEPT ![h] = Some(s)] : h \in HeaderNames, s \in WireIds}
\* The user_id a tool call of the concurrent specification passes: left
\* empty, or explicit.
WireParams == {"", "b"}
\* Values DEFAULT_USER_ID takes: the hardcoded fallback, and one from the
\* environment.
DefaultIds == {"default", " d "}
\* Memory texts; the second needs JSON escaping.
MemTexts == {"m", "q\"x"}
\* str(e) of the exception a storage call raises (None: it does not raise).
Fails == {None, Some("down")}

NoCall ==
    [tool |-> "none", req |-> 0, user_id |-> "", confirm |-> FALSE,
     ctx_user |-> None, header |-> None, fail |-> None, memories |-> None,
     calls |-> << >>, out |-> Return("")]

NoInput == [kind |-> "none"]

\* ---------------------------------------------------------------- actions

\* A request arrives: its task starts in a fresh context, and
\* UserIDMiddleware.dispatch runs up to `await call_next(request)`.
Arrive(r, headers) ==
    /\ pc[r] = "idle"
    /\ LET user_id == header_user_id(headers)
       IN /\ found' = [found EXCEPT ![r] = user_id]
          /\ ctx' = dispatch_set(ctx_new(ctx, r), r, user_id)
    /\ pc' = [pc EXCEPT ![r] = "next"]
    /\ UNCHANGED << DEFAULT_USER_ID, store, last, input >>

\* call_next returns and dispatch returns the response: the task ends and
\* its context is dropped.
Respond(r) ==
    /\ pc[r] = "next"
    /\ pc' = [pc EXCEPT ![r] = "idle"]
    /\ found' = [found EXCEPT ![r] = None]
    /\ ctx' = ctx_new(ctx, r)
    /\ UNCHANGED << DEFAULT_USER_ID, store, last, input >>

\* A tool runs inside request r, below call_next.
Invoke(r, tool, user_id, confirm, fail, memories, res) ==
    /\ pc[r] = "next"
    /\ store' = apply_calls(store, res.calls)
    /\ last' = [tool |-> tool, req |-> r, user_id |-> user_id, confirm |-> confirm,
                ctx_user |-> ctx_get(ctx, r), header |-> found[r], fail |-> fail,
                memories |-> memories, calls |-> res.calls, out |-> res.out]
    /\ UNCHANGED << DEFAULT_USER_ID, pc, found, ctx, input >>

SaveMemory(r, text, user_id, fail) ==
    Invoke(r, "save_memory", user_id, FALSE, fail, None,
           save_memory(text, user_id, ctx_get(ctx, r), DEFAULT_USER_ID,
                       Mem(store, fail, "dict")))

GetAllMemories(r, user_id, fail, shape) ==
    LET res == get_all_memories(user_id, ctx_get(ctx, r), DEFAULT_USER_ID,
                                Mem(store, fail, shape))
    IN Invoke(r, "get_all_memories", user_id, FALSE, fail,
              IF fail = None
              THEN Some(mem0_get_all(Mem(store, fail, shape), res.calls[1].user_id))
              ELSE None,
              res)

SearchMemories(r, query, limit, user_id, fail, shape) ==
    LET res == search_memories(query, limit, user_id, ctx_get(ctx, r),
                               DEFAULT_USER_ID, Mem(store, fail, shape))
    IN Invoke(r, "search_memories", user_id, FALSE, fail,
              IF fail = None
              THEN Some(mem0_search(Mem(store, fail, shape), query,
                                    res.calls[1].user_id, limit))
              ELSE None,
              res)

DeleteAllMemories(r, confirm, user_id, fail) ==
    Invoke(r, "delete_all_memories", user_id, confirm, fail, None,
           delete_all_memories(confirm, user_id, ctx_get(ctx, r), DEFAULT_USER_ID,
                               Mem(store, fail, "dict")))

\* ------------------------------------------- concurrent requests (Spec)

Init ==
    /\ DEFAULT_USER_ID = "default"
    /\ pc = [r \in Requests |-> "idle"]
    /\ found = [r \in Requests |-> None]
    /\ ctx = [r \in Requests |-> None]
    /\ store = << >>
    /\ last = NoCall
    /\ input = NoInput

Next ==
    \E r \in Requests :
        \/ \E headers \in WireHeaders : Arrive(r, headers)
        \/ Respond(r)
        \/ \E user_id \in WireParams :
               /\ Len(store) < MaxStore
               /\ SaveMemory(r, "m", user_id, None)
        \/ \E user_id \in WireParams : GetAllMemories(r, user_id, None, "dict")
        \/ \E user_id \in WireParams :
               SearchMemories(r, "q", DefaultLimit, user_id, None, "list")
        \/ \E user_id \in WireParams, confirm \in BOOLEAN :
               DeleteAllMemories(r, confirm, user_id, None)

Spec == Init /\ [][Next]_vars

\* ------------------------- identity resolution alone (SpecResolve)

\* The inputs: any explicit parameter (None when omitted), any context
\* value, any process default.
InitResolve ==
    /\ DEFAULT_USER_ID \in DefaultIds
    /\ pc = [r \in Requests |-> "idle"]
    /\ found = [r \in Requests |-> None]
    /\ ctx = [r \in Requests |-> None]
    /\ store = << >>
    /\ last = NoCall
    /\ input \in [kind : {"resolve"}, user_id : OptStrings, ctx_user : OptStrings]

ResolveUserId ==
    /\ input.kind = "resolve"
    /\ last.tool = "none"
    /\ last' = [NoCall EXCEPT
                  !.tool = "_resolve_user_id",
                  !.out = Return(_resolve_user_id(input.user_id, input.ctx_user,
                                                  DEFAULT_USER_ID))]
    /\ UNCHANGED << DEFAULT_USER_ID, pc, found, ctx, store, input >>

NextResolve == ResolveUserId

SpecResolve == InitResolve /\ [][NextResolve]_vars

\* ----------------- one request with any headers, no user_id (SpecHeaders)

InitHeaders ==
    /\ DEFAULT_USER_ID \in DefaultIds
    /\ pc = [r \in Requests |-> "idle"]
    /\ found = [r \in Requests |-> None]
    /\ ctx = [r \in Requests |-> None]
    /\ store = << >>
    /\ last = NoCall
    /\ input \in [kind : {"headers"}, headers : [HeaderNames -> OptStrings]]

NextHeaders ==
    \/ Arrive(1, input.headers)
    \/ Respond(1)
    \/ GetAllMemories(1, "", None, "dict")

SpecHeaders == InitHeaders /\ [][NextHeaders]_vars

\* ------------- one tool invocation on any storage content (SpecTools)

\* Context values the middleware can have set: any non-empty string.
ToolCtx == {None, Some(" "), Some("a"), Some(" b")}
ToolParams == {"", " ", "a", " b "}
StoreRecords == [user_id : {"a", "default"}, memory : MemTexts]
Stores == UNION {[1..n -> StoreRecords] : n \in 0..MaxResults}

\* Request 1 is in flight, below call_next, with its context populated.
InitTools ==
    /\ DEFAULT_USER_ID \in DefaultIds
    /\ pc = [r \in Requests |-> IF r = 1 THEN "next" ELSE "idle"]
    /\ \E v \in ToolCtx :
          /\ found = [r \in Requests |-> IF r = 1 THEN v ELSE None]
          /\ ctx = [r \in Requests |-> IF r = 1 THEN v ELSE None]
    /\ store \in Stores
    /\ last = NoCall
    /\ input = [kind |-> "tool", store |-> store]

NextTools ==
    \/ \E text \in MemTexts, user_id \in ToolParams, fail \in Fails :
           last.tool = "none" /\ SaveMemory(1, text, user_id, fail)
    \/ \E user_id \in ToolParams, fail \in Fails, shape \in Shapes :
           last.tool = "none" /\ GetAllMemories(1, user_id, fail, shape)
    \/ \E limit \in {1, DefaultLimit}, user_id \in ToolParams, fail \in Fails,
          shape \in Shapes :
           last.tool = "none" /\ SearchMemories(1, "q", limit, user_id, fail, shape)
    \/ \E confirm \in BOOLEAN, user_id \in ToolParams, fail \in Fails :
           last.tool = "none" /\ DeleteAllMemories(1, confirm, user_id, fail)

SpecTools == InitTools /\ [][NextTools]_vars

\* ------------------------------------------------- what the claims use

\* Trimming, stated without strip: t is s without a leading and a trailing
\* run of whitespace, and neither starts nor ends with whitespace.
Blank(s) == \A i \in 1..Len(s) : SubSeq(s, i, i) \in Whitespace

IsTrimOf(t, s) ==
    /\ \E i \in 0..Len(s) : \E j \in i..Len(s) :
          /\ t = SubSeq(s, i + 1, j)
          /\ Blank(SubSeq(s, 1, i))
          /\ Blank(SubSeq(s, j + 1, Len(s)))
    /\ t # "" => /\ SubSeq(t, 1, 1) \notin Whitespace
                 /\ SubSeq(t, Len(t), Len(t)) \notin Whitespace

\* An optional string that is present and not blank.
Given(o) == o # None /\ ~Blank(o[1])

StartsWith(s, prefix) ==
    Len(s) >= Len(prefix) /\ SubSeq(s, 1, Len(prefix)) = prefix

Contains(s, part) ==
    \E i \in 1..(Len(s) + 1) :
        i + Len(part) - 1 <= Len(s) /\ SubSeq(s, i, i + Len(part) - 1) = part

\* The identity an invocation's storage call was scoped to.
ScopeUsed(l) == l.calls[1].user_id

\* The identity the resolver gives an invocation.
ResolvedOf(l) == _resolve_user_id(Some(l.user_id), l.ctx_user, DEFAULT_USER_ID)

\* C1: the context value a tool invocation reads inside request R is the
\* value the middleware set while handling R (dispatch's own user_id, when it
\* is true), or unset; with other requests in flight or handled before, it is
\* never a value set while handling another request.
C1_ContextIsolation ==
    /\ last.tool # "none" =>
          last.ctx_user = (IF truthy(last.header) THEN last.header ELSE None)
    /\ \A r \in Requests :
          pc[r] = "next" => ctx[r] = (IF truthy(found[r]) THEN found[r] ELSE None)

\* Request 1 read its own "a" while another request is in flight with "b".
C1_Witness ==
    /\ last.tool = "get_all_memories" /\ last.req = 1
    /\ last.ctx_user = Some("a") /\ pc[1] = "next"
    /\ \E r \in Requests : r # 1 /\ pc[r] = "next" /\ ctx[r] = Some("b")

ScopesOf(st) == {st[i].user_id : i \in 1..Len(st)}

\* C3: the records under an identity u change only in a save or a confirmed
\* delete-all whose resolved identity is u, and every storage call of an
\* invocation (its reads too) is scoped to the invocation's own resolved
\* identity, whatever other requests are in flight.
C3_TenantScopes ==
    [][/\ \A u \in ScopesOf(store) \cup ScopesOf(store') :
             scope_of(store', u) # scope_of(store, u) =>
                 /\ last'.tool \in {"save_memory", "delete_all_memories"}
                 /\ last'.tool = "delete_all_memories" => last'.confirm
                 /\ ResolvedOf(last') = u
       /\ last' # last =>
             \A i \in 1..Len(last'.calls) : last'.calls[i].user_id = ResolvedOf(last')
      ]_vars

\* A confirmed delete-all scoped to "b" ran inside one request while the
\* record of "a", saved from another request's header, stayed.
C3_Witness ==
    /\ last.tool = "delete_all_memories" /\ last.confirm
    /\ last.calls # << >> /\ ScopeUsed(last) = "b" /\ last.calls[1].ok
    /\ scope_of(store, "a") # << >>
    /\ \E r \in Requests : r # last.req /\ pc[r] = "next" /\ ctx[r] = Some("a")

\* The storage deletion calls of an invocation.
Deletions(l) == SelectSeq(l.calls, LAMBDA c : c.op = "delete_all")

\* C4: delete_all_memories with confirm=false makes no storage deletion call,
\* for any user_id, context value and storage content, and returns a message
\* containing "not confirmed"; with confirm=true it makes exactly one,
\* scoped to the resolved identity.
C4_ConfirmationGuard ==
    last.tool = "delete_all_memories" =>
        IF ~last.confirm
        THEN /\ Deletions(last) = << >>
             /\ store = input.store
             /\ last.out.kind = "return"
             /\ Contains(last.out.value, "not confirmed")
        ELSE /\ Len(Deletions(last)) = 1
             /\ Deletions(last)[1].user_id = ResolvedOf(last)
             /\ scope_of(store, ResolvedOf(last)) =
                   (IF last.fail = None THEN << >>
                    ELSE scope_of(input.store, ResolvedOf(last)))

\* An unconfirmed delete-all for "a", whose scope holds records.
C4_Witness ==
    /\ last.tool = "delete_all_memories" /\ ~last.confirm
    /\ last.user_id = "a" /\ last.fail = None
    /\ Len(scope_of(input.store, "a")) = MaxResults

\* C7: every invocation of the four tools returns a string, whether the
\* storage call succeeds or raises; a storage failure never leaves the tool
\* and comes back as a string beginning with "Error".
C7_FailSoft ==
    last.tool \in {"save_memory", "get_all_memories", "search_memories",
                   "delete_all_memories"} =>
        /\ last.out.kind = "return"
        /\ (last.calls # << >> /\ last.fail # None) =>
               /\ StartsWith(last.out.value, "Error")
               /\ Contains(last.out.value, last.fail[1])

\* A search whose storage call raised "down".
C7_Witness ==
    /\ last.tool = "search_memories"
    /\ last.fail = Some("down")
    /\ last.out = Return("Error searching memories: down")

\* Reading a JSON array of strings back: the parse the caller of a tool does.
CharAt(s, i) == IF 1 <= i /\ i <= Len(s) THEN SubSeq(s, i, i) ELSE ""

JsonSpace == {" ", "\n", "\t", "\r"}

RECURSIVE SkipSpace(_, _)
SkipSpace(s, i) == IF CharAt(s, i) \in JsonSpace THEN SkipSpace(s, i + 1) ELSE i

Unescaped(c) ==
    CASE c = "n" -> "\n"
      [] c = "t" -> "\t"
      [] OTHER -> c

\* From the character after an opening quote: the string, and the index
\* after its closing quote (0 when there is none).
RECURSIVE ReadString(_, _, _)
ReadString(s, i, acc) ==
    IF i > Len(s) THEN [val |-> acc, next |-> 0]
    ELSE IF CharAt(s, i) = "\"" THEN [val |-> acc, next |-> i + 1]
    ELSE IF CharAt(s, i) = "\\"
         THEN ReadString(s, i + 2, acc \o Unescaped(CharAt(s, i + 1)))
    ELSE ReadString(s, i + 1, acc \o CharAt(s, i))

NotJson == [ok |-> FALSE, list |-> << >>]

RECURSIVE ReadItems(_, _, _)
ReadItems(s, i, acc) ==
    IF CharAt(s, i) # "\"" THEN NotJson
    ELSE LET str == ReadString(s, i + 1, "")
             j == SkipSpace(s, str.next)
         IN IF str.next = 0 THEN NotJson
            ELSE IF CharAt(s, j) = ","
                 THEN ReadItems(s, SkipSpace(s, j + 1), Append(acc, str.val))
            ELSE IF CharAt(s, j) = "]" /\ SkipSpace(s, j + 1) > Len(s)
                 THEN [ok |-> TRUE, list |-> Append(acc, str.val)]
            ELSE NotJson

JsonArray(s) ==
    LET i == SkipSpace(s, 1)
        j == SkipSpace(s, i + 1)
    IN IF CharAt(s, i) # "[" THEN NotJson
       ELSE IF CharAt(s, j) = "]" /\ SkipSpace(s, j + 1) > Len(s)
            THEN [ok |-> TRUE, list |-> << >>]
       ELSE ReadItems(s, j, << >>)

\* C9: get_all_memories and search_memories return, as a JSON array, the
\* memory texts of a {"results": [{"memory": m1}, ..]} response in the
\* storage's order, and the elements of an already flat list unchanged.
C9_UnwrapResults ==
    (last.tool \in {"get_all_memories", "search_memories"} /\ last.memories # None) =>
        LET memories == last.memories[1]
            read == JsonArray(last.out.value)
        IN IF memories.type = "list"
           THEN /\ last.out.kind = "return"
                /\ read.ok
                /\ read.list = memories.items
           ELSE (\A i \in 1..Len(memories.results) :
                     "memory" \in DOMAIN memories.results[i]) =>
                    /\ last.out.kind = "return"
                    /\ read.ok
                    /\ Len(read.list) = Len(memories.results)
                    /\ \A i \in 1..Len(read.list) :
                           read.list[i] = memories.results[i].memory

\* A results wrapper of two different texts, one of them with a quote.
C9_Witness ==
    /\ last.tool = "get_all_memories" /\ last.memories # None
    /\ last.memories[1] =
           [type |-> "dict", results |-> << [memory |-> "m"], [memory |-> "q\"x"] >>]
    /\ last.out = Return("[\n  \"m\",\n  \"q\\\"x\"\n]")

\* C10: within a request, the middleware's write to the context happens
\* before the next stage is called: a request that is below call_next and
\* had a header value has its context populated, so no tool invocation
\* resolves against a context the middleware has not yet written.
C10_ExtractionBeforeDispatch ==
    /\ \A r \in Requests :
          (pc[r] = "next" /\ truthy(found[r])) => ctx[r] # None
    /\ (last.tool # "none" /\ truthy(last.header)) =>
          /\ last.ctx_user # None
          /\ (last.calls # << >> /\ last.user_id = "") =>
                 ScopeUsed(last) = strip(last.header[1])

\* A tool ran in a request whose header was "a" and was scoped to "a".
C10_Witness ==
    /\ last.tool = "save_memory" /\ last.user_id = ""
    /\ last.header = Some("a") /\ ScopeUsed(last) = "a"
    /\ pc[last.req] = "next"

\* The headers of a request that carry a value that is not blank, and the
\* first of them in the fixed order.
HeaderOrder == << "x-user-id", "x-user-email", "x-librechat-user-id" >>

GivenHeaders(headers) == {i \in 1..3 : Given(headers[HeaderOrder[i]])}

FirstGiven(headers) ==
    headers[HeaderOrder[CHOOSE i \in GivenHeaders(headers) :
                            \A j \in GivenHeaders(headers) : i <= j]][1]

\* C5: with no user_id parameter, when several of the three headers carry a
\* value that is not blank the resolved identity is the value of the first
\* of them in the order x-user-id, x-user-email, x-librechat-user-id; when
\* none of the three is present it is the process default.
C5_HeaderPriority ==
    (last.tool = "get_all_memories" /\ last.user_id = "" /\ pc[1] = "next") =>
        /\ Cardinality(GivenHeaders(input.headers)) >= 2 =>
               IsTrimOf(ScopeUsed(last), FirstGiven(input.headers))
        /\ (\A h \in HeaderNames : input.headers[h] = None) =>
               ScopeUsed(last) = DEFAULT_USER_ID

\* C6: the middleware stores the trimmed value of the first header, in
\* priority order, whose value is not blank, so a blank header of higher
\* priority does not keep a valid one of lower priority from being the
\* resolved identity, and the context never holds a blank or untrimmed value.
C6_BlankHeaderIsAbsent ==
    pc[1] = "next" =>
        /\ IF GivenHeaders(input.headers) # {}
           THEN ctx[1] # None /\ IsTrimOf(ctx[1][1], FirstGiven(input.headers))
           ELSE ctx[1] = None
        /\ (last.tool = "get_all_memories" /\ GivenHeaders(input.headers) # {}) =>
               IsTrimOf(ScopeUsed(last), FirstGiven(input.headers))

\* C8: the header identity comes before the user_id tool parameter: when a
\* request carries both, the storage call is scoped to the header identity.
C8_HeaderBeforeParameter ==
    (last.tool # "none" /\ last.calls # << >>
        /\ Given(last.header) /\ ~Blank(last.user_id)) =>
        IsTrimOf(ScopeUsed(last), last.header[1])

====
